---- MODULE Spec2Model ----
(***************************************************************************)
(* The promise core of yui3: the Resolver of src/promise/js/resolver.js     *)
(* wired to the Promise constructor of src/promise/js/promise.js, and the  *)
(* legacy Resolver (resolve/reject) wired to the same constructor.          *)
(*                                                                         *)
(* A Resolver is a cell of `cells`.  Every method is an operator from a    *)
(* call state S (the heap, the Y.soon queue, the logs, the pending         *)
(* exception, the return value) to the call state after it; an action runs *)
(* one top-level call, or one task of the Y.soon queue, to completion and  *)
(* commits the result, an exception that aborts the call included.         *)
(***************************************************************************)
EXTENDS Integers, Sequences, FiniteSets, TLC

VARIABLES impl, cells, thens, tasks, runs, adapterRuns, nCalls, firstCall, last, batch, tpl

vars == <<impl, cells, thens, tasks, runs, adapterRuns, nCalls, firstCall, last, batch, tpl>>

\* ------------------------------------------------------------------ bounds
MaxThen == 2
MaxCalls == 2
NumValues == 2
MaxRender == 1
MaxRegister == 2

\* ------------------------------------------------------------------ values
Val(n) == [t |-> "val", n |-> n, c |-> 0]
Fut(c) == [t |-> "future", n |-> 0, c |-> c]
Undefined == [t |-> "undefined", n |-> 0, c |-> 0]
TypeError == [t |-> "TypeError", n |-> 0, c |-> 0]
Thrown == [t |-> "E", n |-> 0, c |-> 0]
Returned == [t |-> "w", n |-> 0, c |-> 0]
NoExc == [t |-> "none", n |-> 0, c |-> 0]
\* An object whose `then` is a getter that throws, and what the getter throws.
Trap == [t |-> "trap", n |-> 0, c |-> 0]
GetterError == [t |-> "G", n |-> 0, c |-> 0]
\* What a template renders, what it throws or reports, the string '', and the
\* errors raised by Y.error and by reading a variable that is not declared.
Output == [t |-> "output", n |-> 0, c |-> 0]
TemplateError == [t |-> "templateError", n |-> 0, c |-> 0]
EmptyString == [t |-> "''", n |-> 0, c |-> 0]
YError == [t |-> "Y.error", n |-> 0, c |-> 0]
ReferenceError == [t |-> "ReferenceError", n |-> 0, c |-> 0]
\* The array `results` of Y.batch: a reference, so whoever holds it sees the
\* elements that are assigned later.
Results == [t |-> "results", n |-> 0, c |-> 0]

Values == {Val(n) : n \in 1..NumValues}

\* The promises a producer creates with `new Y.Promise(fn)`; every other cell
\* is the child of a then() call.  Sink stands for the promise that a then()
\* call made by the deferred body itself returns: line 157 drops it, so no
\* code can subscribe to it or read it.
Roots == {1, 2}
Sink == 0
Child(k) == Cardinality(Roots) + k
\* The Resolver of the promise that Y.batch returns.
Agg == Child(MaxThen + 1)
CellIds == Roots \cup {Child(k) : k \in 1..MaxThen} \cup {Agg}

\* ------------------------------------------------------------------ functions
\* A function value: a user callback (by what it does when called), a
\* function made by Y.bind, or a non-callable value.
NoFn == [f |-> "none", m |-> "", on |-> "", c |-> 0]
UserFn(kind, c) == [f |-> kind, m |-> "", on |-> "", c |-> c]
\* A callback returns a plain value, throws, or returns the promise of Inner.
Inner == CHOOSE r \in Roots : \A s \in Roots : s <= r
UserFns == {UserFn("ret", 0), UserFn("throw", 0), UserFn("retFut", Inner)}
\* A callback that returns an object whose `then` getter throws.
TrapFns == {UserFn("ret", 0), UserFn("retTrap", 0)}
\* A callback that returns the promise that the then() call it was passed to
\* returned: var f = p.then(function () { return f; }).
AdoptFns == {UserFn("ret", 0), UserFn("retSelf", 0)}
ResolverObj(c) == [on |-> "resolver", c |-> c]
FunctionObj(fn) == [on |-> "function", c |-> fn.c]
YBind(m, obj) == [f |-> "bound", m |-> m, on |-> obj.on, c |-> obj.c]
isFunction(fn) == fn.f # "none"

\* The methods of Resolver.prototype that take the settlement value.
Methods == IF impl = "resolver.js" THEN {"fulfill", "reject"} ELSE {"resolve", "reject"}

\* fn.call(resolver, Y.bind('resolve', resolver), Y.bind('reject', resolver)):
\* the two arguments the Promise constructor hands to fn.
PromiseArgs(c) == <<YBind("resolve", ResolverObj(c)), YBind("reject", ResolverObj(c))>>

\* function (resolver) { thenFullfill = Y.bind('fulfill', resolver);
\*                       thenReject = Y.bind('reject', resolver); }
\* called by the constructor, so `resolver` is its first argument.
thenFullfill(child) == YBind("fulfill", FunctionObj(PromiseArgs(child)[1]))
thenReject(child) == YBind("reject", FunctionObj(PromiseArgs(child)[1]))

\* ------------------------------------------------------------------ cells
NullSubs == [null |-> TRUE, list |-> <<>>]
EmptySubs == [null |-> FALSE, list |-> <<>>]
NewResolver == [status |-> "pending", result |-> Undefined,
                fulfillSubs |-> EmptySubs, rejectSubs |-> EmptySubs]

WrapSub(fn, k, path, child) == [wrapped |-> TRUE, fn |-> fn, then |-> k, path |-> path, child |-> child]
DirectSub(fn, k, path, child) == [wrapped |-> FALSE, fn |-> fn, then |-> k, path |-> path, child |-> child]

Throw(S, e) == [S EXCEPT !.exc = e]
Return(S, v) == [S EXCEPT !.ret = v]
Failed(S) == S.exc # NoExc

RECURSIVE fulfill(_, _, _), reject(_, _, _), NotifyFrom(_, _, _, _), CallSub(_, _, _), CallFn(_, _, _, _, _)
RECURSIVE legacyResolve(_, _, _), legacyReject(_, _, _), DeferredBody(_, _), oneDone(_, _, _)

\* Y.soon(fn): fn is appended to the queue of tasks.
soon(S, task) == [S EXCEPT !.tasks = Append(@, task)]

\* wrap() without Y.soon: the body runs inside the call of the subscriber.
wrapWithoutSoon(S, sub, arg) ==
    DeferredBody(S, [fn |-> sub.fn, then |-> sub.then, path |-> sub.path, child |-> sub.child, arg |-> arg])

\* function () { var args = arguments; Y.soon(function () {...}); }
wrap(S, sub, arg) ==
    soon(S, [fn |-> sub.fn, then |-> sub.then, path |-> sub.path, child |-> sub.child, arg |-> arg])

\* The legacy wrap(): (Y.soon || setTimeout)(function () {...}, 0)
legacyWrap(S, sub, arg) ==
    soon(S, [fn |-> sub.fn, then |-> sub.then, path |-> sub.path, child |-> sub.child, arg |-> arg])

\* ------------------------------------------------------------------ Template callbacks
\* A function of template-base.js that is called with one argument.
TemplateFn(kind) == [f |-> kind, m |-> "", on |-> "", c |-> 0]

\* A function handed to Y.soon as it is, not through wrap().
SoonTask(fn, arg) == [fn |-> fn, then |-> 0, path |-> "soon", child |-> Sink, arg |-> arg]

\* callback(err) or callback(): the completion callback of renderTo().
callCallback(S, err) ==
    Return([S EXCEPT !.tpl.calls = Append(@, [frame |-> S.frame, err |-> err])], Undefined)

\* node.setHTML(output)
setHTML(S, output) == [S EXCEPT !.tpl.html = output]

\* function (err, output) { if (err) { callback(err); return; }
\*                          node.setHTML(output); callback(); }
\* called with an error or with an output.
asyncDone(S, arg) ==
    IF arg = TemplateError THEN callCallback(S, arg) ELSE callCallback(setHTML(S, arg), Undefined)

\* function (output) { node.setHTML(output); Y.soon(callback); }
promiseDone(S, output) ==
    Return(soon(setHTML(S, output), SoonTask(TemplateFn("callback"), Undefined)), Undefined)

\* function (err) { Y.soon(function () { callback(err); }); }
promiseFailed(S, err) == Return(soon(S, SoonTask(TemplateFn("callback"), err)), Undefined)

\* A function made by Y.bind(m, obj), called with arg: obj[m].apply(obj, [arg]).
CallBound(S, fn, arg) ==
    IF fn.on = "resolver" /\ fn.m \in Methods
    THEN IF fn.c = Sink THEN Return(S, Fut(Sink))
         ELSE CASE fn.m = "fulfill" -> fulfill(S, fn.c, arg)
                [] fn.m = "resolve" -> legacyResolve(S, fn.c, arg)
                [] fn.m = "reject" -> IF impl = "resolver.js" THEN reject(S, fn.c, arg)
                                      ELSE legacyReject(S, fn.c, arg)
    ELSE Throw(S, TypeError)

\* Calling a function value with one argument; a user callback is logged.
CallFn(S, fn, arg, k, path) ==
    IF fn.f = "bound" THEN CallBound(S, fn, arg)
    ELSE LET S1 == [S EXCEPT !.runs = Append(@, [then |-> k, path |-> path, arg |-> arg, frame |-> S.frame])]
         IN CASE fn.f = "ret" -> Return(S1, Returned)
              [] fn.f = "throw" -> Throw(S1, Thrown)
              [] fn.f = "retFut" -> Return(S1, Fut(fn.c))
              [] fn.f = "retTrap" -> Return(S1, Trap)
              [] fn.f = "retSelf" -> Return(S1, Fut(Child(k)))
              [] fn.f = "oneDone" -> oneDone(S, fn.c, arg)
              [] fn.f = "callback" -> callCallback(S, arg)
              [] fn.f = "asyncDone" -> asyncDone(S, arg)
              [] fn.f = "promiseDone" -> promiseDone(S, arg)
              [] fn.f = "promiseFailed" -> promiseFailed(S, arg)
              [] OTHER -> Throw(S, TypeError)

\* subs[i](result)
CallSub(S, sub, arg) ==
    IF sub.wrapped THEN (IF impl = "resolver.js" THEN wrap(S, sub, arg) ELSE legacyWrap(S, sub, arg))
    ELSE CallFn([S EXCEPT !.adapterRuns = @ \cup {[then |-> sub.then, path |-> sub.path, frame |-> S.frame]}],
                sub.fn, arg, sub.then, sub.path)

\* for (i = 0, len = subs.length; i < len; ++i) { subs[i](result); }
NotifyFrom(S, list, i, result) ==
    IF i > Len(list) THEN S
    ELSE LET S1 == CallSub(S, list[i], result)
         IN IF Failed(S1) THEN S1 ELSE NotifyFrom(S1, list, i + 1, result)

_notify(S, subs, result) == IF subs.null THEN S ELSE NotifyFrom(S, subs.list, 1, result)

fulfill(S, c, value) ==
    LET S1 == IF S.cells[c].status = "pending" THEN [S EXCEPT !.cells[c].result = value] ELSE S
    IN IF S1.cells[c].status # "rejected"
       THEN LET S2 == _notify(S1, S1.cells[c].fulfillSubs, S1.cells[c].result)
            IN IF Failed(S2) THEN S2
               ELSE Return([S2 EXCEPT !.cells[c].fulfillSubs = EmptySubs,
                                      !.cells[c].rejectSubs = NullSubs,
                                      !.cells[c].status = "fulfilled"], Fut(c))
       ELSE Return(S1, Fut(c))

reject(S, c, reason) ==
    LET S1 == IF S.cells[c].status = "pending" THEN [S EXCEPT !.cells[c].result = reason] ELSE S
    IN IF S1.cells[c].status # "fulfilled"
       THEN LET S2 == _notify(S1, S1.cells[c].rejectSubs, S1.cells[c].result)
            IN IF Failed(S2) THEN S2
               ELSE Return([S2 EXCEPT !.cells[c].fulfillSubs = NullSubs,
                                      !.cells[c].rejectSubs = EmptySubs,
                                      !.cells[c].status = "rejected"], Fut(c))
       ELSE Return(S1, Fut(c))

\* resolveSubs.push(x): resolveSubs is this._fulfillSubs, or a new array that
\* nothing else refers to when this._fulfillSubs is null.
Push(subs, x) == IF subs.null THEN subs ELSE [subs EXCEPT !.list = Append(@, x)]

\* then() replaying fulfill() on every receiver that is not rejected, a
\* pending one included.
thenSettling(S, c, callback, errback, k, child) ==
    LET onF == IF isFunction(callback) THEN WrapSub(callback, k, "cb", child)
               ELSE DirectSub(thenFullfill(child), k, "cb", child)
        onR == IF isFunction(errback) THEN WrapSub(errback, k, "eb", child)
               ELSE DirectSub(thenReject(child), k, "eb", child)
        S1 == [S EXCEPT !.cells[c].fulfillSubs = Push(@, onF),
                        !.cells[c].rejectSubs = Push(@, onR)]
        S2 == IF S1.cells[c].status # "rejected" THEN fulfill(S1, c, S1.cells[c].result)
              ELSE reject(S1, c, S1.cells[c].result)
    IN IF Failed(S2) THEN S2 ELSE Return(S2, Fut(child))

then(S, c, callback, errback, k, child) ==
    LET onF == IF isFunction(callback) THEN WrapSub(callback, k, "cb", child)
               ELSE DirectSub(thenFullfill(child), k, "cb", child)
        onR == IF isFunction(errback) THEN WrapSub(errback, k, "eb", child)
               ELSE DirectSub(thenReject(child), k, "eb", child)
        S1 == [S EXCEPT !.cells[c].fulfillSubs = Push(@, onF),
                        !.cells[c].rejectSubs = Push(@, onR)]
        S2 == IF S1.cells[c].status = "fulfilled" THEN fulfill(S1, c, S1.cells[c].result)
              ELSE IF S1.cells[c].status = "rejected" THEN reject(S1, c, S1.cells[c].result)
              ELSE S1
    IN IF Failed(S2) THEN S2 ELSE Return(S2, Fut(child))

\* The test of the returned value taking no value for a promise.
isThenableNever(v) == FALSE

\* if (result && typeof result.then === 'function')
isThenable(v) == v.t = "future"

\* Reading result.then runs the getter when `then` is one.
thenAccessThrows(v) == v.t = "trap"

\* null, an object whose `then` is not a function, a function, and the
\* booleans.
Null == [t |-> "null", n |-> 0, c |-> 0]
NotCallableThen == [t |-> "thenNotFunction", n |-> 0, c |-> 0]
FunctionValue == [t |-> "function", n |-> 0, c |-> 0]
True == [t |-> "true", n |-> 0, c |-> 0]
False == [t |-> "false", n |-> 0, c |-> 0]

\* obj.then: a TypeError on null and undefined, what the getter throws when
\* `then` is a getter that throws, else the member, undefined when absent.
readThen(S, obj) ==
    CASE obj.t \in {"undefined", "null"} -> Throw(S, TypeError)
      [] thenAccessThrows(obj) -> Throw(S, GetterError)
      [] obj.t = "future" -> Return(S, FunctionValue)
      [] obj.t = "thenNotFunction" -> Return(S, Val(1))
      [] OTHER -> Return(S, Undefined)

\* isPromise without the try/catch around the read of obj.then.
isPromiseWithoutTry(S, obj) ==
    LET S1 == readThen(S, obj)
    IN IF Failed(S1) THEN S1 ELSE Return(S1, IF S1.ret = FunctionValue THEN True ELSE False)

\* Promise.isPromise(obj): try { then = obj.then; } catch (_) {}
\* return typeof then === 'function';
isPromise(S, obj) ==
    LET S1 == readThen(S, obj)
        then_ == IF Failed(S1) THEN Undefined ELSE S1.ret
    IN Return(Throw(S1, NoExc), IF then_ = FunctionValue THEN True ELSE False)

\* The function that wrap() hands to Y.soon.
DeferredBody(S, task) ==
    LET S1 == CallFn(S, task.fn, task.arg, task.then, task.path)
    IN IF Failed(S1)
       THEN CallFn(Throw(S1, NoExc), thenReject(task.child), S1.exc, 0, "")
       ELSE IF thenAccessThrows(S1.ret) THEN Throw(S1, GetterError)
       ELSE IF isThenable(S1.ret)
       THEN then(S1, S1.ret.c, thenFullfill(task.child), thenReject(task.child), 0, Sink)
       ELSE CallFn(S1, thenFullfill(task.child), S1.ret, 0, "")

\* ------------------------------------------------------------------ legacy Resolver
\* The Resolver with resolve()/reject(): _subs.resolve is fulfillSubs,
\* _subs.reject is rejectSubs, and a key missing from _subs is a null list.
legacyNotify(S, subs, result) == IF subs.null THEN S ELSE NotifyFrom(S, subs.list, 1, result)

legacyResolve(S, c, value) ==
    LET S1 == [S EXCEPT !.cells[c].result = value]
        S2 == legacyNotify(S1, S1.cells[c].fulfillSubs, S1.cells[c].result)
    IN IF Failed(S2) THEN S2
       ELSE Return([S2 EXCEPT !.cells[c].fulfillSubs = EmptySubs,
                              !.cells[c].rejectSubs = NullSubs,
                              !.cells[c].status = "resolved"], Fut(c))

legacyReject(S, c, reason) ==
    LET S1 == [S EXCEPT !.cells[c].result = reason]
        S2 == legacyNotify(S1, S1.cells[c].rejectSubs, S1.cells[c].result)
    IN IF Failed(S2) THEN S2
       ELSE Return([S2 EXCEPT !.cells[c].fulfillSubs = NullSubs,
                              !.cells[c].rejectSubs = EmptySubs,
                              !.cells[c].status = "rejected"], Fut(c))

\* function (fulfill, reject) { thenFullfill = fulfill; thenReject = reject; }
legacyThenFullfill(child) == PromiseArgs(child)[1]
legacyThenReject(child) == PromiseArgs(child)[2]

legacyThen(S, c, callback, errback, k, child) ==
    LET onF == IF isFunction(callback) THEN WrapSub(callback, k, "cb", child)
               ELSE DirectSub(legacyThenFullfill(child), k, "cb", child)
        onR == IF isFunction(errback) THEN WrapSub(errback, k, "eb", child)
               ELSE DirectSub(legacyThenReject(child), k, "eb", child)
        S1 == [S EXCEPT !.cells[c].fulfillSubs = Push(@, onF),
                        !.cells[c].rejectSubs = Push(@, onR)]
        S2 == IF S1.cells[c].status = "resolved" THEN legacyResolve(S1, c, S1.cells[c].result)
              ELSE IF S1.cells[c].status = "rejected" THEN legacyReject(S1, c, S1.cells[c].result)
              ELSE S1
    IN IF Failed(S2) THEN S2 ELSE Return(S2, Fut(child))

\* then() on a dropped promise.  The only reference to it is the value that
\* the bound function fn just returned, so fn.m(arg) has just settled it and it
\* has no other subscriber: then() queues wrap(callback) or wrap(errback) and
\* replays the result, which hands that one subscriber to Y.soon.
legacySinkThen(S, fn, arg, callback, errback) ==
    Return(legacyWrap(S, WrapSub(IF fn.m = "resolve" THEN callback ELSE errback, 0,
                           IF fn.m = "resolve" THEN "cb" ELSE "eb", Sink), arg), Fut(Sink))

\* The function that the legacy wrap() hands to (Y.soon || setTimeout).
legacyDeferredBody(S, task) ==
    LET S1 == CallFn(S, task.fn, task.arg, task.then, task.path)
    IN IF Failed(S1)
       THEN CallFn(Throw(S1, NoExc), legacyThenReject(task.child), S1.exc, 0, "")
       ELSE IF thenAccessThrows(S1.ret) THEN Throw(S1, GetterError)
       ELSE IF isThenable(S1.ret)
       THEN IF S1.ret.c = Sink
            THEN legacySinkThen(S1, task.fn, task.arg, legacyThenFullfill(task.child),
                                legacyThenReject(task.child))
            ELSE legacyThen(S1, S1.ret.c, legacyThenFullfill(task.child),
                            legacyThenReject(task.child), 0, Sink)
       ELSE CallFn(S1, legacyThenFullfill(task.child), S1.ret, 0, "")

\* ------------------------------------------------------------------ Y.batch
\* results[i] = value: a JavaScript array grows to hold index i, and the
\* elements never assigned read as undefined.
SetAt(a, i, value) ==
    [j \in 1..(IF i > Len(a) THEN i ELSE Len(a)) |->
        IF j = i THEN value ELSE IF j <= Len(a) THEN a[j] ELSE Undefined]

\* The function oneDone(i) returns; fulfill is the first argument that the
\* Promise constructor handed to the function Y.batch gave it.
oneDone(S, i, value) ==
    LET S1 == [S EXCEPT !.batch.results = SetAt(@, i, value),
                        !.batch.remaining = @ - 1]
    IN IF S1.batch.remaining = 0 /\ S1.cells[Agg].status # "rejected"
       THEN LET S2 == CallFn(S1, PromiseArgs(Agg)[1], Results, 0, "")
            IN IF Failed(S2) THEN S2 ELSE Return(S2, Undefined)
       ELSE Return(S1, Undefined)

OneDoneFn(i) == [f |-> "oneDone", m |-> "", on |-> "", c |-> i]

\* Y.when(promise, callback, errback) for a promise: promise.then(callback,
\* errback); Y.batch drops the promise it returns.
when(S, c, callback, errback) ==
    IF impl = "resolver.js" THEN then(S, c, callback, errback, 0, Sink)
    ELSE legacyThen(S, c, callback, errback, 0, Sink)

\* Y.Array.each(funcs, function (fn, i) { Y.when(fn, oneDone(i), reject); })
RECURSIVE EachFrom(_, _, _)
EachFrom(S, i, n) ==
    IF i > n THEN S
    ELSE LET S1 == when(S, i, OneDoneFn(i), PromiseArgs(Agg)[2])
         IN IF Failed(S1) THEN S1 ELSE EachFrom(S1, i + 1, n)

\* ------------------------------------------------------------------ Y.Template
\* The names templates are registered under, and the entry of
\* Template._registry for a name that was never registered.
Names == {"a", "b"}
Unregistered == [template |-> "undefined", type |-> "undefined", c |-> 0]

\* options.type: one of the four documented types, or undefined when
\* register() is called without it.
Types == {"sync", "async", "promise", "live", "undefined"}

\* What a registered template function does when called: it produces Output
\* or fails, and one that takes a callback calls it before returning or
\* hands the call to Y.soon.
Templates == {"ok", "fail", "okLater"}

\* The promise that a template of type 'promise' returns.
TemplatePromise == CHOOSE r \in Roots : r # Inner

\* Y.error(msg): throws, or logs and returns when throwFail is off.
error(S, throwFail) == IF throwFail THEN Throw(S, YError) ELSE S

\* Template.register(templateName, template, options)
register(S, name, template, type) ==
    Return([S EXCEPT !.tpl.registry[name] = [template |-> template, type |-> type, c |-> 0]], Undefined)

\* A registered template function as a value.
TemplateValue(template) == [t |-> template, n |-> 0, c |-> 0]

\* Template.get(templateName): record && record.template
get(S, name) ==
    Return(S, IF S.tpl.registry[name] = Unregistered THEN Undefined
              ELSE TemplateValue(S.tpl.registry[name].template))

\* template(data) or template(data, options) for a template that returns.
callTemplate(S, record) ==
    IF record.template = "fail" THEN Throw(S, TemplateError) ELSE Return(S, Output)

\* template(data, done): the template calls done(err, output) before it
\* returns or later.
callWithDone(S, record, done) ==
    CASE record.template = "ok" -> CallFn(S, done, Output, 0, "soon")
      [] record.template = "fail" -> CallFn(S, done, TemplateError, 0, "soon")
      [] OTHER -> soon(S, SoonTask(done, Output))

\* Template.render(templateName, data, options)
render(S, name, throwFail) ==
    LET record == S.tpl.registry[name]
    IN IF record # Unregistered /\ record.type = "sync" THEN callTemplate(S, record)
       ELSE LET S1 == error(S, throwFail)
            IN IF Failed(S1) THEN S1 ELSE Return(S1, EmptyString)

\* The function that bindTo() returns for `record`, called with (data, callback).
boundTemplate(S, record) ==
    CASE record.type = "async" -> callWithDone(S, record, TemplateFn("asyncDone"))
      [] record.type = "promise" ->
            then(S, TemplatePromise, TemplateFn("promiseDone"), TemplateFn("promiseFailed"), 0, Sink)
      [] record.type = "live" -> callWithDone(S, record, TemplateFn("callback"))
      [] OTHER -> LET S1 == callTemplate(S, record)
                  IN IF Failed(S1) THEN callCallback(Throw(S1, NoExc), S1.exc)
                     ELSE callCallback(setHTML(S1, S1.ret), Undefined)

\* Template.bindTo(templateNamek, node)(data, callback).  The body of bindTo
\* reads `templateName`, which is not its parameter: `global` is what that
\* name resolves to outside the function, "" when nothing declares it.
renderTo(S, global, throwFail) ==
    IF global = "" THEN Throw(S, ReferenceError)
    ELSE LET record == S.tpl.registry[global]
         IN IF record # Unregistered THEN boundTemplate(S, record)
            ELSE LET S1 == error(S, throwFail)
                 IN IF Failed(S1) THEN S1 ELSE Throw(S1, TypeError)

\* ------------------------------------------------------------------ actions
Call(frame) == [cells |-> cells, tasks |-> tasks, runs |-> runs, adapterRuns |-> adapterRuns,
                batch |-> batch, tpl |-> tpl, exc |-> NoExc, ret |-> Undefined, frame |-> frame]

Commit(S, op, c, arg) ==
    /\ cells' = S.cells
    /\ tasks' = S.tasks
    /\ runs' = S.runs
    /\ adapterRuns' = S.adapterRuns
    /\ batch' = S.batch
    /\ tpl' = S.tpl
    /\ last' = [op |-> op, c |-> c, arg |-> arg, exc |-> S.exc,
                changed |-> {x \in CellIds : S.cells[x].status # cells[x].status}]

\* User code calls then() on the promise under study and on the promises that
\* then() returned; the promise of Inner is the one callbacks return, and the
\* deferred body subscribes to it.
Chained == (Roots \ {Inner}) \cup {Child(k) : k \in 1..Len(thens)}

Fulfill(c, v) ==
    /\ impl = "resolver.js"
    /\ nCalls < MaxCalls
    /\ Commit(fulfill(Call("fulfill"), c, v), "fulfill", c, v)
    /\ nCalls' = nCalls + 1
    /\ firstCall' = IF firstCall[c].op = "none"
                    THEN [firstCall EXCEPT ![c] = [op |-> "fulfill", arg |-> v, at |-> nCalls + 1]]
                    ELSE firstCall
    /\ UNCHANGED <<impl, thens>>

Reject(c, v) ==
    /\ impl = "resolver.js"
    /\ nCalls < MaxCalls
    /\ Commit(reject(Call("reject"), c, v), "reject", c, v)
    /\ nCalls' = nCalls + 1
    /\ firstCall' = IF firstCall[c].op = "none"
                    THEN [firstCall EXCEPT ![c] = [op |-> "reject", arg |-> v, at |-> nCalls + 1]]
                    ELSE firstCall
    /\ UNCHANGED <<impl, thens>>

Then(c, callback, errback) ==
    /\ impl = "resolver.js"
    /\ Len(thens) < MaxThen
    /\ LET k == Len(thens) + 1
       IN /\ Commit(then(Call("then"), c, callback, errback, k, Child(k)), "then", c, Undefined)
          /\ thens' = Append(thens, [parent |-> c, cb |-> callback, eb |-> errback,
                                     status |-> cells[c].status])
    /\ UNCHANGED <<impl, nCalls, firstCall>>

\* Y.soon runs the function it was handed: the body wrap() made, or a
\* function of template-base.js.
RunSoon(S, task) ==
    IF task.path = "soon" THEN CallFn(S, task.fn, task.arg, 0, "soon") ELSE DeferredBody(S, task)

RunTask ==
    /\ impl = "resolver.js"
    /\ tasks # <<>>
    /\ Commit(RunSoon([Call("task") EXCEPT !.tasks = Tail(tasks)], Head(tasks)),
              "task", Head(tasks).child, Head(tasks).arg)
    /\ UNCHANGED <<impl, thens, nCalls, firstCall>>

LegacyResolve(c, v) ==
    /\ impl = "legacy"
    /\ nCalls < MaxCalls
    /\ Commit(legacyResolve(Call("resolve"), c, v), "resolve", c, v)
    /\ nCalls' = nCalls + 1
    /\ firstCall' = IF firstCall[c].op = "none"
                    THEN [firstCall EXCEPT ![c] = [op |-> "resolve", arg |-> v, at |-> nCalls + 1]]
                    ELSE firstCall
    /\ UNCHANGED <<impl, thens>>

LegacyReject(c, v) ==
    /\ impl = "legacy"
    /\ nCalls < MaxCalls
    /\ Commit(legacyReject(Call("reject"), c, v), "reject", c, v)
    /\ nCalls' = nCalls + 1
    /\ firstCall' = IF firstCall[c].op = "none"
                    THEN [firstCall EXCEPT ![c] = [op |-> "reject", arg |-> v, at |-> nCalls + 1]]
                    ELSE firstCall
    /\ UNCHANGED <<impl, thens>>

LegacyThen(c, callback, errback) ==
    /\ impl = "legacy"
    /\ Len(thens) < MaxThen
    /\ LET k == Len(thens) + 1
       IN /\ Commit(legacyThen(Call("then"), c, callback, errback, k, Child(k)), "then", c, Undefined)
          /\ thens' = Append(thens, [parent |-> c, cb |-> callback, eb |-> errback,
                                     status |-> cells[c].status])
    /\ UNCHANGED <<impl, nCalls, firstCall>>

LegacyRunTask ==
    /\ impl = "legacy"
    /\ tasks # <<>>
    /\ Commit(legacyDeferredBody([Call("task") EXCEPT !.tasks = Tail(tasks)], Head(tasks)),
              "task", Head(tasks).child, Head(tasks).arg)
    /\ UNCHANGED <<impl, thens, nCalls, firstCall>>

\* The producer function calls the j-th argument that the Promise constructor
\* handed it.
Produce(c, j, v) ==
    /\ nCalls < MaxCalls
    /\ Commit(CallFn(Call("producer"), PromiseArgs(c)[j], v, 0, ""),
              IF j = 1 THEN "fulfillArg" ELSE "rejectArg", c, v)
    /\ nCalls' = nCalls + 1
    /\ firstCall' = IF firstCall[c].op = "none"
                    THEN [firstCall EXCEPT ![c] = [op |-> IF j = 2 THEN "reject"
                                                         ELSE IF impl = "resolver.js" THEN "fulfill"
                                                         ELSE "resolve",
                                                  arg |-> v, at |-> nCalls + 1]]
                    ELSE firstCall
    /\ UNCHANGED <<impl, thens>>

\* Y.batch(p1, ..., pn): the inputs are the first n promises.
Batch(n) ==
    /\ ~batch.called
    /\ Commit(EachFrom([Call("batch") EXCEPT !.batch = [called |-> TRUE, n |-> n, remaining |-> n,
                                                       results |-> <<>>, at |-> nCalls]], 1, n),
              "batch", Agg, Undefined)
    /\ UNCHANGED <<impl, thens, nCalls, firstCall>>

\* A call of a function of Y.Template: tpl records the call and what it
\* returned.
TemplateCall(S, op, name) ==
    /\ Commit([S EXCEPT !.tpl.op = op, !.tpl.name = name, !.tpl.ret = S.ret], op, Sink, Undefined)
    /\ UNCHANGED <<impl, thens, nCalls, firstCall>>

Register(name, template, type) ==
    /\ tpl.registers < MaxRegister
    /\ TemplateCall(register([Call("register") EXCEPT !.tpl.registers = @ + 1], name, template, type),
                    "register", name)

Get(name) == TemplateCall(get(Call("get"), name), "get", name)

Render(name, throwFail) == TemplateCall(render(Call("render"), name, throwFail), "render", name)

RenderTo(name, global, throwFail) ==
    /\ tpl.renders < MaxRender
    /\ TemplateCall(renderTo([Call("renderTo") EXCEPT !.tpl.renders = @ + 1], global, throwFail),
                    "renderTo", name)

\* Promise.isPromise(obj), for any value and for a promise in any state.
ShimObjects == Values \cup {Undefined, Null, Trap, NotCallableThen} \cup {Fut(c) : c \in Roots}

IsPromise(obj) ==
    /\ LET S == isPromise(Call("isPromise"), obj)
       IN last' = [op |-> "isPromise", c |-> Sink, arg |-> obj, exc |-> S.exc, changed |-> {},
                   ret |-> S.ret]
    /\ UNCHANGED <<impl, cells, thens, tasks, runs, adapterRuns, nCalls, firstCall, batch, tpl>>

Start(i) ==
    /\ impl = i
    /\ cells = [c \in CellIds |-> NewResolver]
    /\ thens = <<>>
    /\ tasks = <<>>
    /\ runs = <<>>
    /\ adapterRuns = {}
    /\ nCalls = 0
    /\ firstCall = [c \in Roots |-> [op |-> "none", arg |-> Undefined, at |-> 0]]
    /\ last = [op |-> "new", c |-> 0, arg |-> Undefined, exc |-> NoExc, changed |-> {}]
    /\ batch = [called |-> FALSE, n |-> 0, remaining |-> 0, results |-> <<>>, at |-> 0]
    /\ tpl = [registry |-> [name \in Names |-> Unregistered], html |-> EmptyString, calls |-> <<>>,
              renders |-> 0, registers |-> 0, op |-> "new", name |-> "", ret |-> Undefined]

Init == Start("resolver.js")

LegacyInit == Start("legacy")

Next ==
    \/ \E c \in Roots, v \in Values : Fulfill(c, v)
    \/ \E c \in Roots, v \in Values : Reject(c, v)
    \/ \E c \in Chained, callback \in UserFns \cup {NoFn}, errback \in UserFns \cup {NoFn} :
          Then(c, callback, errback)
    \/ RunTask

LegacyNext ==
    \/ \E c \in Roots, v \in Values : LegacyResolve(c, v)
    \/ \E c \in Roots, v \in Values : LegacyReject(c, v)
    \/ \E c \in Chained, callback \in UserFns \cup {NoFn}, errback \in UserFns \cup {NoFn} :
          LegacyThen(c, callback, errback)
    \/ LegacyRunTask

Spec == Init /\ [][Next]_vars

LegacySpec == LegacyInit /\ [][LegacyNext]_vars

\* The producer's use of the arguments the constructor hands it, and
\* callbacks that return an object whose `then` getter throws.
ProducerNext ==
    \/ \E c \in Roots, j \in {1, 2}, v \in Values : Produce(c, j, v)
    \/ \E c \in Roots, v \in Values : Fulfill(c, v)
    \/ \E c \in Roots, v \in Values : Reject(c, v)
    \/ \E c \in Chained, callback \in TrapFns \cup {NoFn}, errback \in TrapFns \cup {NoFn} :
          Then(c, callback, errback)
    \/ RunTask

ProducerSpec == Init /\ [][ProducerNext]_vars

\* Promises as values: a producer fulfils its Resolver with a plain value or
\* with the promise of Inner, and callbacks return the promise of their own
\* then() call.
AdoptValues == {Val(1), Fut(Inner)}

AdoptNext ==
    \/ \E c \in Roots, v \in AdoptValues : Fulfill(c, v)
    \/ \E c \in Roots, v \in Values : Reject(c, v)
    \/ \E c \in Chained, callback \in AdoptFns \cup {NoFn}, errback \in AdoptFns \cup {NoFn} :
          Then(c, callback, errback)
    \/ RunTask

AdoptSpec == Init /\ [][AdoptNext]_vars

\* Y.batch over promises that other code subscribes to as well.
BatchFns == {UserFn("ret", 0), NoFn}

BatchNext ==
    \/ \E n \in 0..Cardinality(Roots) : Batch(n)
    \/ \E c \in Roots, v \in Values : Fulfill(c, v)
    \/ \E c \in Roots, v \in Values : Reject(c, v)
    \/ \E c \in Chained, callback \in BatchFns, errback \in BatchFns : Then(c, callback, errback)
    \/ RunTask

LegacyBatchNext ==
    \/ \E n \in 0..Cardinality(Roots) : Batch(n)
    \/ \E c \in Roots, v \in Values : LegacyResolve(c, v)
    \/ \E c \in Roots, v \in Values : LegacyReject(c, v)
    \/ \E c \in Chained, callback \in BatchFns, errback \in BatchFns : LegacyThen(c, callback, errback)
    \/ LegacyRunTask

BatchSpec == Init /\ [][BatchNext]_vars

\* Y.Template over the registry, with the promise a 'promise' template
\* returns settled by its producer.
TemplateNext ==
    \/ \E name \in Names, template \in Templates, type \in Types : Register(name, template, type)
    \/ \E name \in Names : Get(name)
    \/ \E name \in Names, throwFail \in BOOLEAN : Render(name, throwFail)
    \/ \E name \in Names, global \in Names \cup {""}, throwFail \in BOOLEAN :
          RenderTo(name, global, throwFail)
    \/ \E v \in Values : Fulfill(TemplatePromise, v)
    \/ \E v \in Values : Reject(TemplatePromise, v)
    \/ RunTask

TemplateSpec == Init /\ [][TemplateNext]_vars

\* Promise.isPromise applied to plain values and to promises that their
\* producers settle.
ShimNext ==
    \/ \E obj \in ShimObjects : IsPromise(obj)
    \/ \E c \in Roots, v \in Values : Fulfill(c, v)
    \/ \E c \in Roots, v \in Values : Reject(c, v)

ShimSpec == Init /\ [][ShimNext]_vars

LegacyBatchSpec == LegacyInit /\ [][LegacyBatchNext]_vars

\* Either Resolver installed as Y.Promise.Resolver.
BothSpec == (Init \/ LegacyInit) /\ [][Next \/ LegacyNext]_vars

\* Y.soon runs every task it was handed.
FairSpec == Spec /\ WF_vars(RunTask)

\* ------------------------------------------------------------------ observers
\* The invocations of the callback that then() call k took on `path`.
RunsOf(k, path) == {i \in 1..Len(runs) : runs[i].then = k /\ runs[i].path = path}
Ran(k, path) == RunsOf(k, path) # {}
ThenIds == 1..Len(thens)
FnOf(k, path) == IF path = "cb" THEN thens[k].cb ELSE thens[k].eb
Settled(c) == cells[c].status # "pending"

\* The then() call that returned promise c, the promise at the head of the
\* chain that c ends, and whether every stage of that chain took callbacks
\* that return a plain value or throw, or took none.
ThenOf(c) == CHOOSE k \in ThenIds : Child(k) = c
RECURSIVE RootOf(_)
RootOf(c) == IF c \in Roots THEN c ELSE RootOf(thens[ThenOf(c)].parent)
PlainFns == {UserFn("ret", 0), UserFn("throw", 0), NoFn}
RECURSIVE PlainChain(_)
PlainChain(c) ==
    \/ c \in Roots
    \/ /\ thens[ThenOf(c)].cb \in PlainFns
       /\ thens[ThenOf(c)].eb \in PlainFns
       /\ PlainChain(thens[ThenOf(c)].parent)

\* ------------------------------------------------------------------ claims

\* C1: only the first fulfill()/reject() call on a Resolver has effect: from
\* that call on the status is the one that call sets and getResult() is that
\* call's argument.
AtMostOnceSettlement ==
    \A c \in Roots :
        /\ firstCall[c].op = "fulfill" =>
              cells[c].status = "fulfilled" /\ cells[c].result = firstCall[c].arg
        /\ firstCall[c].op = "reject" =>
              cells[c].status = "rejected" /\ cells[c].result = firstCall[c].arg

\* C2: on the legacy Resolver a resolve()/reject() call made after the first
\* one leaves the status and the result as the first call set them.
LegacySettlementFinal ==
    \A c \in Roots :
        /\ firstCall[c].op = "resolve" =>
              cells[c].status = "resolved" /\ cells[c].result = firstCall[c].arg
        /\ firstCall[c].op = "reject" =>
              cells[c].status = "rejected" /\ cells[c].result = firstCall[c].arg

\* C3: every callback passed to then() is invoked at most once.
CallbackAtMostOnce ==
    \A k \in ThenIds : \A path \in {"cb", "eb"} : Cardinality(RunsOf(k, path)) <= 1

\* C4: the callback of the non-matching path never fires, so never both
\* callbacks of one then() call run.
NonMatchingNeverFires ==
    \A k \in ThenIds :
        /\ cells[thens[k].parent].status = "fulfilled" => ~Ran(k, "eb")
        /\ cells[thens[k].parent].status = "rejected" => ~Ran(k, "cb")
        /\ ~(Ran(k, "cb") /\ Ran(k, "eb"))

\* C5: callbacks registered on the same Resolver run in the order of their
\* then() calls, each receiving the settled value (Y.soon being FIFO).
OrderPreservation ==
    /\ \A i, j \in 1..Len(runs) :
          (i < j /\ thens[runs[i].then].parent = thens[runs[j].then].parent)
              => runs[i].then <= runs[j].then
    /\ \A i \in 1..Len(runs) :
          /\ Settled(thens[runs[i].then].parent)
          /\ runs[i].arg = cells[thens[runs[i].then].parent].result

\* C6: then(cb, eb) on a Resolver that is already fulfilled (rejected) invokes
\* cb (eb), if callable, exactly once with the stored result, once Y.soon has
\* run all it was handed.
LateSubscription ==
    \A k \in ThenIds : \A path \in {"cb", "eb"} :
        (/\ thens[k].status = (IF path = "cb" THEN "fulfilled" ELSE "rejected")
         /\ isFunction(FnOf(k, path)))
        => /\ Cardinality(RunsOf(k, path)) <= 1
           /\ tasks = <<>> => Ran(k, path)
           /\ \A i \in RunsOf(k, path) : runs[i].arg = cells[thens[k].parent].result

\* C7: a callback passed to then() never executes inside the fulfill(),
\* reject() or then() call that triggers it, only in a task run by Y.soon.
NoSynchronousReentrancy == \A i \in 1..Len(runs) : runs[i].frame = "task"

\* A callback registered before settlement and one registered after it have run.
EarlyAndLateCallbackRan ==
    \E i, j \in 1..Len(runs) :
        /\ thens[runs[i].then].status = "pending"
        /\ thens[runs[j].then].status # "pending"

\* C8: no subscriber, pass-through adapter included, runs inside the call that
\* triggers it, so a fulfill()/reject()/then() call returns with every child
\* as it found it.
SubscribersRunLater ==
    /\ adapterRuns = {}
    /\ last.op \in {"fulfill", "reject", "then"} => last.changed \subseteq {last.c}

\* C9: when a callback passed to then() throws E, the child of that then()
\* call is rejected with E.
ExceptionUnification ==
    \A i \in 1..Len(runs) :
        FnOf(runs[i].then, runs[i].path).f = "throw"
            => /\ cells[Child(runs[i].then)].status = "rejected"
               /\ cells[Child(runs[i].then)].result = Thrown

\* C10: when a then() callback returns the promise F2, the child is pending
\* while F2 is, and takes F2's state and value, never F2 itself, once F2 is
\* settled and Y.soon has run all it was handed.
Flattening ==
    \A i \in 1..Len(runs) :
        FnOf(runs[i].then, runs[i].path).f = "retFut"
            => LET child == cells[Child(runs[i].then)]
                   F2 == cells[FnOf(runs[i].then, runs[i].path).c]
               IN /\ F2.status = "pending" => child.status = "pending"
                  /\ (Settled(FnOf(runs[i].then, runs[i].path).c) /\ tasks = <<>>)
                        => child.status = F2.status /\ child.result = F2.result
                  /\ child.result.t # "future"

\* C11: when the parent rejects and the errback of then() returns the plain
\* value w, the child is fulfilled with w and a callback of the next stage
\* receives w; a child whose errback ran is rejected only if the errback threw
\* or returned a promise that is rejected.
Recovery ==
    \A i \in 1..Len(runs) :
        runs[i].path = "eb" =>
            LET k == runs[i].then
                child == cells[Child(k)]
            IN /\ thens[k].eb.f = "ret" =>
                     /\ child.status = "fulfilled"
                     /\ child.result = Returned
                     /\ \A k2 \in ThenIds :
                           thens[k2].parent = Child(k) =>
                               /\ ~Ran(k2, "eb")
                               /\ \A j \in RunsOf(k2, "cb") : runs[j].arg = Returned
               /\ child.status = "rejected" =>
                     \/ thens[k].eb.f = "throw"
                     \/ thens[k].eb.f = "retFut" /\ cells[thens[k].eb.c].status = "rejected"

\* C12: then() with a non-callable callback (errback) on a parent that is
\* fulfilled with v (rejected with r) raises no error and leaves the child
\* fulfilled with v (rejected with r).
PassThrough ==
    /\ last.exc # TypeError
    /\ \A k \in ThenIds :
          LET parent == cells[thens[k].parent]
              child == cells[Child(k)]
          IN /\ (~isFunction(thens[k].cb) /\ parent.status = "fulfilled")
                    => child.status = "fulfilled" /\ child.result = parent.result
             /\ (~isFunction(thens[k].eb) /\ parent.status = "rejected")
                    => child.status = "rejected" /\ child.result = parent.result

\* C13: when a callback returns an object whose `then` getter throws, the
\* deferred body treats it as a plain value: the child is fulfilled with that
\* object and the getter's exception does not leave the task.
ThrowingThenTolerated ==
    /\ last.exc # GetterError
    /\ \A i \in 1..Len(runs) :
          FnOf(runs[i].then, runs[i].path).f = "retTrap"
              => /\ cells[Child(runs[i].then)].status = "fulfilled"
                 /\ cells[Child(runs[i].then)].result = Trap

\* The inputs of the Y.batch call, those whose first settling call was a
\* reject(), and the one of them that call came first for.
Inputs == 1..batch.n
Rejecting == {i \in Inputs : firstCall[i].op = "reject"}
FirstToReject == CHOOSE i \in Rejecting : \A j \in Rejecting : firstCall[i].at <= firstCall[j].at
\* Every input was still untouched when Y.batch was called.
SettledAfterBatch == \A i \in Inputs : firstCall[i].op # "none" => firstCall[i].at > batch.at
IsFulfilled(c) == cells[c].status \in {"fulfilled", "resolved"}

\* C14: whenever the promise of Y.batch is fulfilled, every input is fulfilled
\* and the result is the array of the inputs' values in input order.
AggregateSuccess ==
    IsFulfilled(Agg) =>
        /\ cells[Agg].result = Results
        /\ Len(batch.results) = batch.n
        /\ \A i \in Inputs : IsFulfilled(i) /\ batch.results[i] = cells[i].result

\* C15: once an input of Y.batch has rejected, the promise of Y.batch is never
\* fulfilled; it is rejected once Y.soon has run all it was handed, and its
\* result is and stays the reason of the first input to reject.
ShortCircuit ==
    (batch.called /\ SettledAfterBatch /\ Rejecting # {}) =>
        /\ cells[Agg].status # "fulfilled"
        /\ tasks = <<>> => cells[Agg].status = "rejected"
        /\ cells[Agg].status = "rejected" => cells[Agg].result = firstCall[FirstToReject].arg

\* C16: Y.batch() with no input returns a promise that is fulfilled with an
\* empty array when the call returns.
EmptyBatchFulfils ==
    (batch.called /\ batch.n = 0) =>
        /\ cells[Agg].status = "fulfilled"
        /\ cells[Agg].result = Results
        /\ batch.results = <<>>

\* C17: for Y.batch over one input or more, once every input is fulfilled and
\* Y.soon has run all it was handed, the promise of Y.batch is fulfilled.
AggregateLiveness ==
    (/\ batch.called
     /\ batch.n >= 1
     /\ \A i \in Inputs : cells[i].status = "fulfilled"
     /\ tasks = <<>>)
    => cells[Agg].status = "fulfilled"

\* C18: the first argument the constructor hands the producer fulfils the
\* promise with the value it is called with, the second rejects it with the
\* reason, and the pair then() captures does the same for the child: a
\* callback that returns w leaves the child fulfilled with w.
WorkingCapabilityPair ==
    /\ (last.op = "fulfillArg" /\ firstCall[last.c].at = nCalls)
          => /\ last.exc = NoExc
             /\ cells[last.c].status = "fulfilled"
             /\ cells[last.c].result = last.arg
    /\ (last.op = "rejectArg" /\ firstCall[last.c].at = nCalls)
          => /\ last.exc = NoExc
             /\ cells[last.c].status = "rejected"
             /\ cells[last.c].result = last.arg
    /\ \A i \in 1..Len(runs) :
          FnOf(runs[i].then, runs[i].path).f = "ret"
              => /\ cells[Child(runs[i].then)].status = "fulfilled"
                 /\ cells[Child(runs[i].then)].result = Returned

\* C19: the completion callback of renderTo() runs in a later turn than the
\* renderTo() call, for every type of registered template, and renderTo() of
\* a registered template raises no error.
RenderToNotifiesLater ==
    /\ \A i \in 1..Len(tpl.calls) : tpl.calls[i].frame = "task"
    /\ (tpl.op = "renderTo" /\ tpl.registry[tpl.name] # Unregistered) => last.exc = NoExc

\* C20: Template.render() of a template registered without a type returns
\* what the template function returns and raises no error.
SyncIsDefaultType ==
    (/\ tpl.op = "render"
     /\ tpl.registry[tpl.name] # Unregistered
     /\ tpl.registry[tpl.name].type = "undefined"
     /\ tpl.registry[tpl.name].template # "fail")
    => last.exc = NoExc /\ tpl.ret = Output

\* C21: Template.register(name, template) returns the template function it
\* was given; Template.get(name) returns the function registered under name
\* and undefined for a name that was never registered.
RegisterReturnsTemplate ==
    /\ tpl.op = "register" => tpl.ret = TemplateValue(tpl.registry[tpl.name].template)
    /\ tpl.op = "get" =>
          tpl.ret = IF tpl.registry[tpl.name] = Unregistered THEN Undefined
                    ELSE TemplateValue(tpl.registry[tpl.name].template)

\* C22: once a fulfill(), reject() or then() call has returned and left a
\* Resolver settled, no subscriber is queued on it: the list of the matching
\* path is empty and the list of the other path is null.
QueuesClearedAtSettlement ==
    (last.op \in {"fulfill", "reject", "then"} /\ last.exc = NoExc) =>
        LET r == cells[last.c]
        IN /\ r.status = "fulfilled" => r.fulfillSubs = EmptySubs /\ r.rejectSubs = NullSubs
           /\ r.status = "rejected" => r.rejectSubs = EmptySubs /\ r.fulfillSubs = NullSubs

\* C23: Promise.isPromise(obj) never throws and returns true exactly for an
\* object whose `then` can be read and is a function: false for undefined,
\* null, plain values, a `then` that is not a function and a `then` getter
\* that throws.
IsPromiseStructural ==
    last.op = "isPromise" =>
        /\ last.exc = NoExc
        /\ last.ret = (IF last.arg.t = "future" THEN True ELSE False)

\* isPromise was called on an object whose `then` getter throws.
IsPromiseOnThrowingThen == last.op = "isPromise" /\ last.arg = Trap /\ last.ret = False

\* C24: then() is read-only on its receiver: whatever the receiver's state
\* and whatever the arguments, a call of then() leaves the receiver's status
\* and result as they were, under both Resolvers, although on a settled
\* receiver it calls fulfill()/reject() again with the stored result.
ThenLeavesReceiver ==
    [][last'.op = "then" =>
          /\ cells'[last'.c].status = cells[last'.c].status
          /\ cells'[last'.c].result = cells[last'.c].result]_vars

\* then() was called on a settled Resolver and returned.
ThenOnSettledReturned ==
    /\ last.op = "then"
    /\ last.exc = NoExc
    /\ thens[Len(thens)].status # "pending"
    /\ cells[last.c].status = thens[Len(thens)].status

\* C25: sibling isolation.  When the callback of one then() call on a
\* Resolver throws, the callbacks of the other then() calls on that Resolver
\* still run with the settled value once Y.soon has run all it was handed, and
\* their children settle by their own callbacks: fulfilled with what the
\* callback returned, rejected only when their own callback threw or returned
\* a rejected promise.
SiblingIsolation ==
    \A i \in 1..Len(runs) :
        FnOf(runs[i].then, runs[i].path).f = "throw" =>
            \A k2 \in ThenIds \ {runs[i].then} :
                (/\ thens[k2].parent = thens[runs[i].then].parent
                 /\ isFunction(FnOf(k2, runs[i].path))
                 /\ tasks = <<>>)
                => LET fn == FnOf(k2, runs[i].path)
                       child == cells[Child(k2)]
                   IN /\ Ran(k2, runs[i].path)
                      /\ \A j \in RunsOf(k2, runs[i].path) :
                            runs[j].arg = cells[thens[k2].parent].result
                      /\ fn.f = "ret" => child.status = "fulfilled" /\ child.result = Returned
                      /\ fn.f = "throw" => child.status = "rejected" /\ child.result = Thrown
                      /\ child.status = "rejected" =>
                            \/ fn.f = "throw"
                            \/ fn.f = "retFut" /\ cells[fn.c].status = "rejected"

\* C26: chain progress.  In a chain p.then(..).then(..) whose callbacks
\* return a plain value or throw, every promise of the chain is eventually
\* settled once the root p is settled, provided Y.soon eventually runs every
\* task it was handed; while the root is pending every promise of the chain
\* is pending.
ChainProgress ==
    \A k \in 1..MaxThen :
        /\ [](k \in ThenIds /\ ~Settled(RootOf(Child(k))) => ~Settled(Child(k)))
        /\ (k \in ThenIds /\ PlainChain(Child(k)) /\ Settled(RootOf(Child(k))))
              ~> Settled(Child(k))

\* C27: self-adoption never settles.  When a callback of then() returns the
\* promise that this then() call returned, that promise subscribes to itself
\* and is pending in every later state: it is not rejected for the cycle, and
\* no callback of a then() on it runs.
SelfAdoptionPends ==
    \A i \in 1..Len(runs) :
        FnOf(runs[i].then, runs[i].path).f = "retSelf" =>
            LET self == Child(runs[i].then)
            IN /\ cells[self].status = "pending"
               /\ \E j \in 1..Len(cells[self].fulfillSubs.list) :
                     cells[self].fulfillSubs.list[j].fn = thenFullfill(self)
               /\ \E j \in 1..Len(cells[self].rejectSubs.list) :
                     cells[self].rejectSubs.list[j].fn = thenReject(self)
               /\ \A k2 \in ThenIds :
                     thens[k2].parent = self => ~Ran(k2, "cb") /\ ~Ran(k2, "eb")

\* A callback returned the promise of its own then() call, that promise has a
\* then() of its own with a callback, and Y.soon has nothing left to run.
SelfAdoptedAndChained ==
    \E i \in 1..Len(runs) : \E k2 \in ThenIds :
        /\ FnOf(runs[i].then, runs[i].path).f = "retSelf"
        /\ thens[k2].parent = Child(runs[i].then)
        /\ isFunction(thens[k2].cb)
        /\ tasks = <<>>

\* C28: no assimilation on the producer's side.  fulfill(F) on a pending
\* Resolver, F a promise in any state, leaves the Resolver fulfilled with F
\* itself, and the child of a then() without callback is fulfilled with F
\* itself once Y.soon has nothing left to run.
NoProducerAssimilation ==
    \A c \in Roots :
        (firstCall[c].op = "fulfill" /\ firstCall[c].arg.t = "future") =>
            /\ cells[c].status = "fulfilled"
            /\ cells[c].result = firstCall[c].arg
            /\ \A k \in ThenIds :
                  (thens[k].parent = c /\ ~isFunction(thens[k].cb) /\ tasks = <<>>)
                  => /\ cells[Child(k)].status = "fulfilled"
                     /\ cells[Child(k)].result = firstCall[c].arg

====
